---- MODULE Spec2Model ----
(***************************************************************************)
(* A model of the persistence layer of dev-events-nextjs16:                *)
(*   - lib/mongodb.ts          the cached connection (connectToDatabase)   *)
(*   - database/event.model.ts the Event schema and its pre-save hook      *)
(*   - database/booking.model.ts the Booking schema and its pre-save hook  *)
(*                                                                         *)
(* JavaScript runs every synchronous stretch of code to completion and     *)
(* resumes an `await` from a FIFO job queue; the connection part models    *)
(* that queue (mq) explicitly.  The store part models MongoDB as a         *)
(* collection of documents whose single-document writes are atomic.        *)
(***************************************************************************)
EXTENDS Integers, Sequences, FiniteSets, TLC

VARIABLES
    cachedPromise,  \* cached.promise: 0 (null) or the attempt whose promise it holds
    cachedConn,     \* cached.conn: 0 (null) or the handle stored in it
    attempt,        \* attempt[a]: state of the a-th mongoose.connect(...).then().catch() chain
    waiters,        \* waiters[a]: the calls suspended in `await` on attempt a, in order
    pc,             \* pc[c]: where call c of connectToDatabase() is
    awaiting,       \* awaiting[c]: the attempt call c awaits (0: none)
    result,         \* result[c]: what call c returned or threw
    mq,             \* the JavaScript job queue: continuations ready to run, FIFO
    events,         \* the Event collection: id -> document
    bookings,       \* the Booking collection: a set of documents
    nextId,         \* the identity the next new Event gets
    writes,         \* how many Event writes were applied
    saves,          \* Booking saves between their pre-save hook and their write
    last            \* the last save() or delete: what was asked and how it ended

connVars == <<cachedPromise, cachedConn, attempt, waiters, pc, awaiting, result, mq>>
dbVars == <<events, bookings, nextId, writes, saves, last>>
vars == <<cachedPromise, cachedConn, attempt, waiters, pc, awaiting, result, mq,
          events, bookings, nextId, writes, saves, last>>

(***************************************************************************)
(* Bounds of the model.                                                    *)
(***************************************************************************)
MaxCalls == 4
MaxEvents == 3
MaxBookings == 2
MaxWrites == 2

Calls == 1..MaxCalls
Attempts == 1..MaxCalls

(***************************************************************************)
(* lib/mongodb.ts                                                          *)
(***************************************************************************)

\* The handle attempt a resolves to.  (mongoose.connect resolves to the
\* mongoose instance; the model tells the connections of different attempts
\* apart, which is finer than the code.)
Handle(a) == a

ConnError == "Database connection error"

NoResult == [kind |-> "none", handle |-> 0, error |-> ""]
Returned(h) == [kind |-> "returned", handle |-> h, error |-> ""]
Threw == [kind |-> "threw", handle |-> 0, error |-> ConnError]

CallJob(c) == [type |-> "call", id |-> c, ok |-> TRUE]
SettleJob(a, ok) == [type |-> "settle", id |-> a, ok |-> ok]
ResumeJob(c) == [type |-> "resume", id |-> c, ok |-> TRUE]

\* The promise stored in cached.promise is pending until the .then/.catch
\* handlers of lines 86-95 have run.
Pending(a) == attempt[a] \in {"connecting", "settling"}

NumStarted == Cardinality({a \in Attempts : attempt[a] # "none"})

ResumeJobs(ws) == [i \in 1..Len(ws) |-> ResumeJob(ws[i])]

InitConn ==
    /\ cachedPromise = 0
    /\ cachedConn = 0
    /\ attempt = [a \in Attempts |-> "none"]
    /\ waiters = [a \in Attempts |-> <<>>]
    /\ pc = [c \in Calls |-> "idle"]
    /\ awaiting = [c \in Calls |-> 0]
    /\ result = [c \in Calls |-> NoResult]
    /\ mq = <<>>

\* A request handler reaches its `await connectToDatabase()`: the call is the
\* next thing that flow does, after the jobs already queued.
Request(c) ==
    /\ pc[c] = "idle"
    /\ \A d \in Calls : d < c => pc[d] # "idle"
    /\ pc' = [pc EXCEPT ![c] = "scheduled"]
    /\ mq' = Append(mq, CallJob(c))
    /\ UNCHANGED <<cachedPromise, cachedConn, attempt, waiters, awaiting, result>>
    /\ UNCHANGED dbVars

\* The driver settles the promise of mongoose.connect (line 84-85): the
\* .then/.catch reaction is queued.
ConnectOutcome(a, ok) ==
    /\ attempt[a] = "connecting"
    /\ attempt' = [attempt EXCEPT ![a] = "settling"]
    /\ mq' = Append(mq, SettleJob(a, ok))
    /\ UNCHANGED <<cachedPromise, cachedConn, waiters, pc, awaiting, result>>
    /\ UNCHANGED dbVars

\* A slip: the call starts an attempt whether or not one is in flight.
StartsAttemptAlways == TRUE

\* Line 83: whether the call starts a connection attempt.
StartsAttempt == cachedPromise = 0

\* Lines 76-100, up to the await: the synchronous prefix of connectToDatabase().
RunCall ==
    /\ UNCHANGED dbVars
    /\ mq # <<>>
    /\ Head(mq).type = "call"
    /\ LET c == Head(mq).id
           new == NumStarted + 1
       IN  IF cachedConn # 0
           THEN \* lines 77-80
                /\ pc' = [pc EXCEPT ![c] = "returned"]
                /\ result' = [result EXCEPT ![c] = Returned(cachedConn)]
                /\ mq' = Tail(mq)
                /\ UNCHANGED <<cachedPromise, cachedConn, attempt, waiters, awaiting>>
           ELSE LET a == IF StartsAttempt THEN new ELSE cachedPromise
                    attempt1 == IF StartsAttempt
                                THEN [attempt EXCEPT ![new] = "connecting"]
                                ELSE attempt
                IN  /\ cachedPromise' = a
                    /\ attempt' = attempt1
                    /\ awaiting' = [awaiting EXCEPT ![c] = a]
                    /\ pc' = [pc EXCEPT ![c] = "await"]
                    /\ waiters' = [waiters EXCEPT ![a] = Append(@, c)]
                    \* awaiting a promise that is already settled resumes
                    \* from the job queue at once
                    /\ mq' = IF attempt1[a] \in {"resolved", "rejected"}
                             THEN Append(Tail(mq), ResumeJob(c))
                             ELSE Tail(mq)
                    /\ UNCHANGED <<cachedConn, result>>

\* A slip: the .catch handler leaves the rejected promise in the slot.
PromiseKeptAfterFailure == cachedPromise

\* Lines 90-92: what the .catch handler leaves in cached.promise.
PromiseAfterFailure == 0

\* Lines 86-95: the .then handler (success) or the .catch handler (failure)
\* runs; the promise held by cached.promise settles and the continuations of
\* the calls awaiting it are queued, in the order they began to await.
RunSettle ==
    /\ mq # <<>>
    /\ Head(mq).type = "settle"
    /\ LET a == Head(mq).id
       IN  /\ attempt' = [attempt EXCEPT ![a] = IF Head(mq).ok THEN "resolved" ELSE "rejected"]
           /\ cachedPromise' = IF Head(mq).ok THEN cachedPromise ELSE PromiseAfterFailure
           /\ mq' = Tail(mq) \o ResumeJobs(waiters[a])
    /\ UNCHANGED <<cachedConn, waiters, pc, awaiting, result>>
    /\ UNCHANGED dbVars

\* Lines 101-105: what a call whose await threw leaves in cached.promise.
PromiseAfterCatch == 0

\* Lines 98-107: a call resumes from its await.
RunResume ==
    /\ mq # <<>>
    /\ Head(mq).type = "resume"
    /\ LET c == Head(mq).id
           a == awaiting[c]
       IN  IF attempt[a] = "resolved"
           THEN /\ cachedConn' = Handle(a)
                /\ result' = [result EXCEPT ![c] = Returned(Handle(a))]
                /\ pc' = [pc EXCEPT ![c] = "returned"]
                /\ UNCHANGED cachedPromise
           ELSE /\ cachedPromise' = PromiseAfterCatch
                /\ result' = [result EXCEPT ![c] = Threw]
                /\ pc' = [pc EXCEPT ![c] = "threw"]
                /\ UNCHANGED cachedConn
    /\ mq' = Tail(mq)
    /\ UNCHANGED <<attempt, waiters, awaiting>>
    /\ UNCHANGED dbVars

NextConn ==
    \/ \E c \in Calls : Request(c)
    \/ \E a \in Attempts, ok \in BOOLEAN : ConnectOutcome(a, ok)
    \/ RunCall
    \/ RunSettle
    \/ RunResume

(***************************************************************************)
(* Strings.  A string is a sequence of one-character strings, so that      *)
(* trimming, lower-casing, slug derivation and the date pattern are        *)
(* computed character by character.                                        *)
(***************************************************************************)
UpperChars == <<"A", "B", "C", "D", "E", "F", "G", "H", "I", "J", "K", "L", "M", "N", "O", "P", "Q", "R", "S", "T", "U", "V", "W", "X", "Y", "Z">>
LowerChars == <<"a", "b", "c", "d", "e", "f", "g", "h", "i", "j", "k", "l", "m", "n", "o", "p", "q", "r", "s", "t", "u", "v", "w", "x", "y", "z">>
DigitChars == <<"0", "1", "2", "3", "4", "5", "6", "7", "8", "9">>

Range(s) == {s[i] : i \in 1..Len(s)}

UpperSet == Range(UpperChars)
DigitSet == Range(DigitChars)
AlnumSet == Range(UpperChars) \cup Range(LowerChars) \cup Range(DigitChars)

IsDigit(ch) == ch \in DigitSet
IsAlnum(ch) == ch \in AlnumSet
IsSpace(ch) == ch = " "

\* String.prototype.toLowerCase, one character.
LowerOf == [ch \in UpperSet |-> LowerChars[CHOOSE i \in 1..Len(UpperChars) : UpperChars[i] = ch]]
LowerChar(ch) == IF ch \in UpperSet THEN LowerOf[ch] ELSE ch

Lower(s) == [i \in 1..Len(s) |-> LowerChar(s[i])]

SetMin(S) == CHOOSE x \in S : \A y \in S : x <= y

RECURSIVE TrimStart(_)
TrimStart(s) == IF s # <<>> /\ IsSpace(Head(s)) THEN TrimStart(Tail(s)) ELSE s

RECURSIVE TrimEnd(_)
TrimEnd(s) == IF s # <<>> /\ IsSpace(s[Len(s)]) THEN TrimEnd(SubSeq(s, 1, Len(s) - 1)) ELSE s

\* String.prototype.trim.
Trim(s) == TrimEnd(TrimStart(s))

RECURSIVE Flatten(_)
Flatten(ss) == IF ss = <<>> THEN <<>> ELSE Head(ss) \o Flatten(Tail(ss))

RECURSIVE CollapseSpaces(_)
\* s.replace(/\s+/g, "-"): every run of whitespace becomes one separator.
CollapseSpaces(s) ==
    IF s = <<>> THEN <<>>
    ELSE IF IsSpace(Head(s))
         THEN IF Len(s) > 1 /\ IsSpace(s[2])
              THEN CollapseSpaces(Tail(s))
              ELSE <<"-">> \o CollapseSpaces(Tail(s))
         ELSE <<Head(s)>> \o CollapseSpaces(Tail(s))

\* slugify's charMap, for the symbols of the model's alphabet that it spells out.
CharMap(ch) ==
    CASE ch = "&" -> <<"a", "n", "d">>
      [] ch = "$" -> <<"d", "o", "l", "l", "a", "r">>
      [] ch = "%" -> <<"p", "e", "r", "c", "e", "n", "t">>
      [] OTHER -> <<ch>>

\* slugify(title, {lower: true, strict: true, trim: true}), with the default
\* replacement "-": each character is spelled out by the charMap, the
\* replacement character itself becomes a space, strict mode then drops
\* whatever is not a letter, a digit or whitespace; the rest is trimmed, its
\* whitespace runs become "-", and it is lower-cased.
Slugify(s) ==
    LET spelled == Flatten([i \in 1..Len(s) |->
                        IF CharMap(s[i]) = <<"-">> THEN <<" ">> ELSE CharMap(s[i])])
        strict == SelectSeq(spelled, LAMBDA ch : IsAlnum(ch) \/ IsSpace(ch))
    IN  Lower(CollapseSpaces(Trim(strict)))

(***************************************************************************)
(* database/event.model.ts: the schema                                     *)
(***************************************************************************)

\* Lines 152-160: the fields the hook's last loop goes through, in order.
requiredFields == <<"title", "description", "overview", "image", "venue", "location", "organizer">>

\* Lines 30-101: the paths of the schema the model keeps (agenda and tags,
\* arrays that default to [], are left out).
TextPaths == {"title", "slug", "description", "overview", "image", "venue",
              "location", "date", "time", "audience", "organizer"}
DraftPaths == (TextPaths \ {"slug"}) \cup {"mode"}
AllPaths == TextPaths \cup {"mode"}

\* The paths declared with trim: true.
TrimPaths == TextPaths \ {"date"}

\* Lines 79-86: the enum of mode.
Modes == {"online", "offline", "hybrid"}

\* The schema's setters, applied when a path is assigned: trim, and for slug
\* (lines 36-42) lowercase.
Cast(f, v) ==
    IF f = "slug" THEN Lower(Trim(v))
    ELSE IF f \in TrimPaths THEN Trim(v)
    ELSE v

\* minlength of a path (lines 34, 47, 53); 0 where the schema sets none.
MinLength(f) ==
    CASE f = "title" -> 3
      [] f \in {"description", "overview"} -> 10
      [] OTHER -> 0

\* A slip: the required validator is missing.
RequiredNotChecked(f, v) == TRUE

\* required: true on a String path: an empty string counts as missing.
RequiredOk(f, v) == f = "slug" \/ v # <<>>

\* The built-in validators of one path.
PathValid(f, v) ==
    IF f = "mode" THEN v \in Modes
    ELSE RequiredOk(f, v) /\ Len(v) >= MinLength(f)

\* Document.validate(), which Mongoose runs before the pre("save") hooks: the
\* paths that fail, among those validated (all of them for a new document,
\* the modified ones otherwise; documents in the collection passed it).
SchemaErrors(doc, paths) == {f \in paths : ~PathValid(f, doc[f])}

(***************************************************************************)
(* database/event.model.ts: the pre-save hook                              *)
(***************************************************************************)
DigitValOf == [ch \in DigitSet |-> (CHOOSE i \in 1..Len(DigitChars) : DigitChars[i] = ch) - 1]
DigitVal(ch) == DigitValOf[ch]

\* Line 132: /^\d{4}-\d{2}-\d{2}$/.test(date).
MatchesDateRegex(d) ==
    /\ Len(d) = 10
    /\ \A i \in 1..10 : IF i \in {5, 8} THEN d[i] = "-" ELSE IsDigit(d[i])

MonthOf(d) == 10 * DigitVal(d[6]) + DigitVal(d[7])
DayOf(d) == 10 * DigitVal(d[9]) + DigitVal(d[10])
YearOf(d) == 1000 * DigitVal(d[1]) + 100 * DigitVal(d[2]) + 10 * DigitVal(d[3]) + DigitVal(d[4])

\* Lines 138-139: !isNaN(new Date(date).getTime()) for a string of the
\* pattern, as Node.js (V8) parses it: the month must be 1..12 and the day
\* 1..31; a day past the end of the month rolls over into the next month
\* (new Date("2024-02-30") is 1 March 2024), it is not rejected.
DateParses(d) == MonthOf(d) \in 1..12 /\ DayOf(d) \in 1..31

NoError == [at |-> "none", msg |-> ""]

\* Lines 130-142: the date step of the hook.
DateError(d) ==
    IF ~MatchesDateRegex(d) THEN [at |-> "date", msg |-> "Date must be in ISO format (YYYY-MM-DD)"]
    ELSE IF ~DateParses(d) THEN [at |-> "date", msg |-> "Invalid date value"]
    ELSE NoError

\* Lines 144-149: the time step of the hook.
TimeError(t) ==
    IF Trim(t) = <<>> THEN [at |-> "time", msg |-> "Time cannot be empty"] ELSE NoError

\* Lines 162-167: the condition under which the loop throws for a field.
FieldThrows(f, doc, isNew, modified) ==
    \/ f \in modified
    \/ isNew /\ Trim(doc[f]) = <<>>

\* Lines 151-170: the loop over requiredFields; the first field that throws.
RequiredFieldsError(doc, isNew, modified) ==
    LET bad == {i \in 1..Len(requiredFields) : FieldThrows(requiredFields[i], doc, isNew, modified)}
    IN  IF bad = {} THEN NoError
        ELSE [at |-> requiredFields[SetMin(bad)], msg |-> "cannot be empty"]

\* Lines 121-128: the slug step of the hook (the assignment goes through the
\* setters of the slug path).
WithSlug(doc, isNew, modified) ==
    IF "title" \in modified \/ isNew
    THEN [doc EXCEPT !["slug"] = Cast("slug", Slugify(doc["title"]))]
    ELSE doc

\* Lines 120-171: the hook: the document as it leaves it, and what it threw.
PreSave(doc, isNew, modified) ==
    LET dateErr == IF "date" \in modified \/ isNew THEN DateError(doc["date"]) ELSE NoError
        timeErr == IF "time" \in modified \/ isNew THEN TimeError(doc["time"]) ELSE NoError
        reqErr == RequiredFieldsError(doc, isNew, modified)
    IN  [doc |-> WithSlug(doc, isNew, modified),
         error |-> IF dateErr # NoError THEN dateErr
                   ELSE IF timeErr # NoError THEN timeErr
                   ELSE reqErr]

(***************************************************************************)
(* The Event collection and save()                                         *)
(***************************************************************************)
Ok == [kind |-> "ok", fields |-> {}, at |-> "", msg |-> ""]
ValidationError(fs) == [kind |-> "validation", fields |-> fs, at |-> "", msg |-> ""]
HookError(e) == [kind |-> "hook", fields |-> {}, at |-> e.at, msg |-> e.msg]
DuplicateKey == [kind |-> "duplicate", fields |-> {"slug"}, at |-> "", msg |-> "E11000"]

EventIds == {e.id : e \in events}
EventById(id) == CHOOSE e \in events : e.id = id

\* A slip: the slug index is not unique.
SlugNeverTaken(id, slug) == FALSE

\* Lines 36-42, unique: true: the index refuses a write that would give two
\* documents the same slug.
SlugTaken(id, slug) == \E e \in events : e.id # id /\ e.doc["slug"] = slug

\* Document.save(): validation, then the pre-save hook, then the write, which
\* the unique index may refuse.  The outcome and the document to be written.
Save(id, doc, isNew, modified) ==
    LET failed == SchemaErrors(doc, IF isNew THEN AllPaths ELSE modified)
        hook == PreSave(doc, isNew, modified)
    IN  IF failed # {} THEN [outcome |-> ValidationError(failed), doc |-> doc]
        ELSE IF hook.error # NoError THEN [outcome |-> HookError(hook.error), doc |-> hook.doc]
        ELSE IF SlugTaken(id, hook.doc["slug"]) THEN [outcome |-> DuplicateKey, doc |-> hook.doc]
        ELSE [outcome |-> Ok, doc |-> hook.doc]

EventsAfter(id, r) ==
    IF r.outcome.kind = "ok"
    THEN {e \in events : e.id # id} \cup {[id |-> id, doc |-> r.doc]}
    ELSE events

\* new Event(draft).save(): every path of the draft is set, so every path is
\* modified (Mongoose marks each path set on a new document as modified).
InsertEvent(draft) ==
    /\ nextId <= MaxEvents
    /\ writes < MaxWrites
    /\ LET doc == [f \in AllPaths |-> IF f = "slug" THEN <<>> ELSE Cast(f, draft[f])]
           r == Save(nextId, doc, TRUE, DraftPaths)
       IN  /\ events' = EventsAfter(nextId, r)
           /\ nextId' = IF r.outcome.kind = "ok" THEN nextId + 1 ELSE nextId
           /\ writes' = IF events' # events THEN writes + 1 ELSE writes
           /\ last' = [op |-> "insert", id |-> nextId, input |-> draft, doc |-> doc,
                       modified |-> DraftPaths, outcome |-> r.outcome, slug |-> r.doc["slug"]]
    /\ UNCHANGED <<bookings, saves>>
    /\ UNCHANGED connVars

\* A document of the collection is loaded, one path is assigned and the
\* document is saved; the path is modified when the value it is cast to
\* differs from the stored one.
UpdateEvent(id, f, v) ==
    /\ id \in EventIds
    /\ writes < MaxWrites
    /\ LET old == EventById(id).doc
           doc == [old EXCEPT ![f] = Cast(f, v)]
           modified == IF doc[f] # old[f] THEN {f} ELSE {}
           r == Save(id, doc, FALSE, modified)
       IN  /\ events' = EventsAfter(id, r)
           /\ last' = [op |-> "update", id |-> id, input |-> [path |-> f, value |-> v], doc |-> doc,
                       modified |-> modified, outcome |-> r.outcome, slug |-> r.doc["slug"]]
           /\ writes' = IF events' # events THEN writes + 1 ELSE writes
    /\ UNCHANGED <<bookings, saves, nextId>>
    /\ UNCHANGED connVars

\* An Event is deleted by an external caller; nothing else is cleaned up.
DeleteEvent(id) ==
    /\ id \in EventIds
    /\ events' = {e \in events : e.id # id}
    /\ last' = [op |-> "delete", id |-> id, input |-> <<>>, doc |-> <<>>, modified |-> {},
                outcome |-> Ok, slug |-> <<>>]
    /\ UNCHANGED <<bookings, saves, nextId, writes>>
    /\ UNCHANGED connVars

(***************************************************************************)
(* database/booking.model.ts                                               *)
(***************************************************************************)

\* Lines 29-32: /^[^\s@]+@[^\s@]+\.[^\s@]+$/.test(email).
EmailValid(s) ==
    LET ats == {i \in 1..Len(s) : s[i] = "@"}
    IN  /\ \A i \in 1..Len(s) : ~IsSpace(s[i])
        /\ Cardinality(ats) = 1
        /\ \E p \in ats :
              /\ p > 1
              /\ \E q \in (p + 2)..(Len(s) - 1) : s[q] = "."

\* Lines 24-33: the setters of email (trim, lowercase).
CastEmail(s) == Lower(Trim(s))

\* Line 47: Event.findById(eventId), a read of the Event collection.
EventExists(eid) == eid \in EventIds

\* Booking.save() up to the end of its pre-save hook (lines 45-52):
\* validation, then the lookup of the referenced event.  When both pass the
\* insert is issued; it reaches the collection in a later step.
BookingPreSave(eid, email) ==
    /\ Cardinality(bookings) + Cardinality(saves) < MaxBookings
    /\ LET b == [eventId |-> eid, email |-> CastEmail(email)]
           outcome == IF ~EmailValid(b.email) THEN ValidationError({"email"})
                      ELSE IF ~EventExists(eid)
                           THEN HookError([at |-> "eventId", msg |-> "Event does not exist"])
                           ELSE Ok
       IN  /\ saves' = IF outcome = Ok THEN saves \cup {b} ELSE saves
           /\ last' = [op |-> "booking-presave", id |-> eid, input |-> [eventId |-> eid, email |-> email],
                       doc |-> b, modified |-> {"eventId", "email"}, outcome |-> outcome, slug |-> <<>>]
    /\ UNCHANGED <<events, bookings, nextId, writes>>
    /\ UNCHANGED connVars

\* The insert issued by Booking.save() is applied to the collection.
BookingWrite(b) ==
    /\ b \in saves
    /\ saves' = saves \ {b}
    /\ bookings' = bookings \cup {[id |-> Cardinality(bookings) + 1, eventId |-> b.eventId, email |-> b.email]}
    /\ last' = [op |-> "booking-write", id |-> b.eventId, input |-> b, doc |-> b, modified |-> {},
                outcome |-> Ok, slug |-> <<>>]
    /\ UNCHANGED <<events, nextId, writes>>
    /\ UNCHANGED connVars

(***************************************************************************)
(* Inputs                                                                  *)
(***************************************************************************)
Blank == <<" ", " ">>

TitleMyTalkBang == <<"M", "y", " ", "T", "a", "l", "k", "!", "!">>
TitleMyTalk == <<"M", "y", " ", "T", "a", "l", "k">>
TitleRustConf == <<"R", "u", "s", "t", " ", "C", "o", "n", "f">>
TitleReactSummit == <<"R", "e", "a", "c", "t", " ", "S", "u", "m", "m", "i", "t">>
TitleBangs == <<"!", "!", "!">>
SlugMyTalk == <<"m", "y", "-", "t", "a", "l", "k">>
SlugRustConf == <<"r", "u", "s", "t", "-", "c", "o", "n", "f">>
SlugReactSummit == <<"r", "e", "a", "c", "t", "-", "s", "u", "m", "m", "i", "t">>
Date20261025 == <<"2", "0", "2", "6", "-", "1", "0", "-", "2", "5">>
Date20260501 == <<"2", "0", "2", "6", "-", "0", "5", "-", "0", "1">>
Date20241301 == <<"2", "0", "2", "4", "-", "1", "3", "-", "0", "1">>
Date20240230 == <<"2", "0", "2", "4", "-", "0", "2", "-", "3", "0">>

\* The draft of the spec's end-to-end example: every field valid.
MyTalkDraft ==
    [title |-> TitleMyTalkBang,
     description |-> <<"A", " ", "g", "o", "o", "d", " ", "t", "a", "l", "k">>,
     overview |-> <<"A", "l", "l", " ", "a", "b", "o", "u", "t", " ", "i", "t">>,
     image |-> <<"/", "a", ".", "p", "n", "g">>,
     venue |-> <<"H", "a", "l", "l", " ", "A">>,
     location |-> <<"R", "e", "m", "o", "t", "e">>,
     date |-> Date20260501,
     time |-> <<"1", "0", ":", "0", "0">>,
     mode |-> "online",
     audience |-> <<"D", "e", "v", "s">>,
     organizer |-> <<"A", "C", "M", "E">>]

\* The values an update assigns to a path.
Values(f) ==
    CASE f = "title" -> {TitleMyTalkBang, TitleBangs, <<>>, <<" ", "R", "u", "s", "t", " ", "C", "o", "n", "f", " ">>}
      [] f = "slug" -> {SlugMyTalk, <<" ", "R", "u", "s", "t", "-", "C", "o", "n", "f">>, SlugReactSummit}
      [] f \in {"description", "overview"} -> {Blank, <<"t", "o", "o", " ", "s", "h", "o", "r", "t">>, <<"A", "n", "o", "t", "h", "e", "r", " ", "t", "e", "x", "t">>}
      [] f = "date" -> {Date20261025, Date20241301, Date20240230, <<"2", "0", "2", "6", "-", "5", "-", "1">>}
      [] f = "time" -> {Blank, <<" ", "1", "0", ":", "0", "0", " ", "A", "M">>}
      [] f = "mode" -> {"hybrid", "virtual"}
      [] OTHER -> {<<>>, <<"H", "a", "l", "l", " ", "B">>}

\* The values a draft gives a path: those above and more.
DraftValues(f) ==
    Values(f) \cup
    CASE f = "title" -> {TitleMyTalk, Blank, <<"a", "b">>, <<"R", "&", "D", " ", "D", "a", "y">>, <<"a", " ", "-", " ", "b">>, <<"$", "$", "$">>}
      [] f = "date" -> {<<"2", "0", "2", "4", "-", "0", "2", "-", "2", "9">>, <<"2", "0", "2", "3", "-", "0", "2", "-", "2", "9">>, <<"2", "0", "2", "6", "-", "0", "4", "-", "3", "1">>, <<"2", "0", "2", "6", "-", "0", "1", "-", "3", "2">>,
                        <<"2", "0", "2", "6", "-", "0", "0", "-", "1", "0">>, <<"2", "0", "2", "6", "-", "0", "1", "-", "0", "0">>, <<"2", "0", "2", "6", "0", "5", "0", "1">>, <<"2", "0", "2", "6", "/", "0", "5", "/", "0", "1">>,
                        <<" ", "2", "0", "2", "6", "-", "0", "5", "-", "0", "1">>, <<"M", "a", "y", " ", "1", " ", "2", "0", "2", "6">>, <<>>}
      [] f = "mode" -> {}
      [] OTHER -> {<<>>, Blank}

\* The drafts: the valid draft, and the valid draft with one field replaced.
Drafts ==
    {MyTalkDraft} \cup
    UNION {{[MyTalkDraft EXCEPT ![f] = v] : v \in DraftValues(f)} : f \in DraftPaths}

Emails == {<<"A", "@", "B", ".", "c", "o", "m">>, <<"n", "o", "t", "-", "a", "n", "-", "e", "m", "a", "i", "l">>, <<" ", "a", "@", "b", ".", "c", "o", " ">>, <<"a", "@", "b">>}

SeedDoc(title, slug, date, time) ==
    [f \in AllPaths |->
        CASE f = "title" -> title
          [] f = "slug" -> slug
          [] f = "date" -> date
          [] f = "time" -> time
          [] OTHER -> MyTalkDraft[f]]

\* The documents the Event collection holds to begin with: two entries of
\* the sample list, imported without going through save().
SeedEvents ==
    {[id |-> 1, doc |-> SeedDoc(TitleReactSummit, SlugReactSummit, <<"2", "0", "2", "6", "-", "0", "6", "-", "1", "2">>, <<"1", "0", ":", "0", "0", " ", "A", "M">>)],
     [id |-> 2, doc |-> SeedDoc(TitleRustConf, SlugRustConf, <<"2", "0", "2", "6", "-", "0", "9", "-", "1", "4">>, <<"1", "0", ":", "0", "0", " ", "A", "M">>)]}

NoOp == [op |-> "none", id |-> 0, input |-> <<>>, doc |-> <<>>, modified |-> {}, outcome |-> Ok, slug |-> <<>>]

InitDbIdle ==
    /\ events = {}
    /\ bookings = {}
    /\ nextId = 1
    /\ writes = 0
    /\ saves = {}
    /\ last = NoOp

InitDb ==
    /\ events = SeedEvents
    /\ bookings = {}
    /\ nextId = Cardinality(SeedEvents) + 1
    /\ writes = 0
    /\ saves = {}
    /\ last = NoOp

NextInserts ==
    \/ \E d \in Drafts : InsertEvent(d)
    \/ \E id \in 1..MaxEvents : DeleteEvent(id)

NextEvents ==
    \/ InsertEvent(MyTalkDraft)
    \/ \E id \in 1..MaxEvents, f \in AllPaths : \E v \in Values(f) : UpdateEvent(id, f, v)
    \/ \E id \in 1..MaxEvents : DeleteEvent(id)

NextBookings ==
    \/ \E eid \in 1..MaxEvents, email \in Emails : BookingPreSave(eid, email)
    \/ \E b \in saves : BookingWrite(b)
    \/ \E id \in 1..MaxEvents : DeleteEvent(id)
    \/ InsertEvent(MyTalkDraft)

InitConnSpec == InitConn /\ InitDbIdle
InitDbSpec == InitConn /\ InitDb

\* The connection cache alone.
SpecConn == InitConnSpec /\ [][NextConn]_vars

\* Inserts of Event drafts, and deletes.
SpecInserts == InitDbSpec /\ [][NextInserts]_vars

\* Updates of Events, with inserts and deletes.
SpecEvents == InitDbSpec /\ [][NextEvents]_vars

\* Booking saves interleaved with Event inserts and deletes.
SpecBookings == InitDbSpec /\ [][NextBookings]_vars

(***************************************************************************)
(* Claims about the connection cache.                                      *)
(***************************************************************************)
InFlight == {a \in Attempts : Pending(a)}

JobsQueued == {mq[i] : i \in 1..Len(mq)}

\* C1: while the first connection attempt has not settled, every call of
\* connectToDatabase() shares it: exactly one mongoose.connect attempt has
\* been started, it is the one in cached.promise, every suspended call awaits
\* it, and every call that awaited it and returned got the handle it resolved to.
SingleFlightUntilSettled ==
    /\ Pending(1) =>
          /\ NumStarted = 1
          /\ cachedPromise = 1
          /\ cachedConn = 0
          /\ \A c \in Calls : pc[c] = "await" => awaiting[c] = 1
    /\ \A c \in Calls :
          (awaiting[c] = 1 /\ pc[c] = "returned") => result[c] = Returned(Handle(1))

\* C1 witness: three calls were issued before the first attempt settled, the
\* attempt succeeded, and all three returned.
ThreeCallersSharedOneAttempt ==
    /\ attempt[1] = "resolved"
    /\ NumStarted = 1
    /\ Cardinality({c \in Calls : awaiting[c] = 1 /\ pc[c] = "returned"}) >= 3
    /\ Len(waiters[1]) >= 3

\* The step runs the .catch handler of a failed attempt.
FailureHandlerStep ==
    /\ mq # <<>>
    /\ Head(mq).type = "settle"
    /\ ~Head(mq).ok
    /\ attempt'[Head(mq).id] = "rejected"

\* The step runs the synchronous prefix of a call.
CallStep ==
    /\ mq # <<>>
    /\ Head(mq).type = "call"
    /\ pc'[Head(mq).id] # "scheduled"

\* C2: when an attempt fails, the failure handler clears cached.promise and
\* leaves cached.conn as it was; every call waiting on the attempt has its
\* continuation queued and, once it has run, has thrown the connection error;
\* cached.conn never holds the handle of a failed attempt and cached.promise
\* never holds a rejected promise; and a call that finds both slots empty
\* after a failure starts a new attempt.
FailureClearsSlotAndAllowsRetry ==
    /\ [](\A c \in Calls :
              (awaiting[c] # 0 /\ attempt[awaiting[c]] = "rejected") =>
                  \/ pc[c] = "await" /\ ResumeJob(c) \in JobsQueued
                  \/ pc[c] = "threw" /\ result[c] = Threw)
    /\ [](cachedConn # 0 => attempt[cachedConn] = "resolved")
    /\ [](cachedPromise # 0 => attempt[cachedPromise] # "rejected")
    /\ [][FailureHandlerStep => (cachedPromise' = 0 /\ cachedConn' = cachedConn)]_vars
    /\ [][(CallStep /\ cachedConn = 0 /\ cachedPromise = 0
              /\ \E a \in Attempts : attempt[a] = "rejected")
            => (NumStarted' = NumStarted + 1
                /\ cachedPromise' = NumStarted'
                /\ Pending(cachedPromise)')]_vars

\* C2 witness: the first attempt failed, both calls waiting on it threw, and
\* a later call started a second attempt, which succeeded.
RetriedAfterFailure ==
    /\ attempt[1] = "rejected"
    /\ Len(waiters[1]) >= 2
    /\ \A i \in 1..Len(waiters[1]) : result[waiters[1][i]] = Threw
    /\ attempt[2] = "resolved"
    /\ cachedConn = Handle(2)

\* C10: at most one connection attempt is in flight at any time.
AtMostOneAttemptInFlight == Cardinality(InFlight) <= 1

(***************************************************************************)
(* Claims about the Event and Booking collections.                         *)
(***************************************************************************)
LeapYear(y) == (y % 4 = 0 /\ y % 100 # 0) \/ y % 400 = 0

DaysInMonth(y, m) ==
    IF m = 2 THEN (IF LeapYear(y) THEN 29 ELSE 28)
    ELSE IF m \in {4, 6, 9, 11} THEN 30 ELSE 31

\* d has the shape YYYY-MM-DD and names a day of the calendar.
RealDate(d) ==
    /\ MatchesDateRegex(d)
    /\ MonthOf(d) \in 1..12
    /\ DayOf(d) \in 1..DaysInMonth(YearOf(d), MonthOf(d))

UrlSafeChars == Range(LowerChars) \cup Range(DigitChars) \cup {"-"}

\* The last operation was the insert of a draft whose paths other than f
\* pass the schema.
InsertedWithOthersValid(f) ==
    /\ last.op = "insert"
    /\ SchemaErrors(last.doc, AllPaths \ {f}) = {}

\* C3: a Booking is written only while the Event it references is in the
\* collection; a Booking save whose eventId matches no Event fails and issues
\* no write, and one whose eventId matches an Event (with a valid email) is
\* accepted.
BookingWrittenOnlyWithEvent ==
    [][/\ \A b \in bookings' \ bookings : b.eventId \in EventIds
       /\ (last'.op = "booking-presave" /\ last'.id \notin EventIds) =>
             (last'.outcome.kind # "ok" /\ saves' = saves /\ bookings' = bookings)
       /\ (last'.op = "booking-presave" /\ last'.id \in EventIds /\ EmailValid(last'.doc.email)) =>
             last'.outcome.kind = "ok"]_vars

\* C4: the insert of the valid draft titled "My Talk!!" passes the hook and
\* is persisted with slug "my-talk" (no other Event holding that slug); the
\* hook rejects no valid new draft.
ValidDraftInserted ==
    /\ (last.op = "insert" /\ last.input = MyTalkDraft
            /\ ~\E e \in events : e.id # last.id /\ e.doc["slug"] = SlugMyTalk) =>
          /\ last.outcome = Ok
          /\ last.slug = SlugMyTalk
          /\ \E e \in events : e.id = last.id /\ e.doc["slug"] = SlugMyTalk
    /\ (last.op = "insert" /\ SchemaErrors(last.doc, AllPaths) = {}
            /\ RealDate(last.doc["date"])) =>
          last.outcome.kind # "hook"

\* C5: a save of an existing Event whose title was changed (to a title the
\* schema accepts, whose slug is not empty and held by no other Event) is
\* persisted with the slug derived from the new title; a save that changed neither the title nor the
\* slug leaves the persisted slug as it was.
SlugFollowsTitle ==
    [][(last'.op = "update" /\ last'.id \in EventIds) =>
          LET id == last'.id
              old == EventById(id).doc
              derived == Cast("slug", Slugify(last'.doc["title"]))
          IN  /\ ("title" \in last'.modified
                    /\ SchemaErrors(last'.doc, {"title"}) = {}
                    /\ derived # <<>>
                    /\ ~SlugTaken(id, derived)) =>
                     \E e \in events' :
                        /\ e.id = id
                        /\ e.doc["title"] = last'.doc["title"]
                        /\ e.doc["slug"] = derived
              /\ ("title" \notin last'.modified /\ "slug" \notin last'.modified) =>
                     \A e \in events' : e.id = id => e.doc["slug"] = old["slug"]]_vars

\* C6: the insert of a draft in which one of the seven required text fields
\* is empty or only whitespace, every other field being valid, fails with a
\* validation error that names that field and no other, and the document is
\* not in the collection.
BlankRequiredFieldNamed ==
    \A i \in 1..Len(requiredFields) :
        LET f == requiredFields[i]
        IN  (InsertedWithOthersValid(f) /\ Trim(last.input[f]) = <<>>) =>
                /\ last.outcome.kind = "validation"
                /\ last.outcome.fields = {f}
                /\ last.id \notin EventIds

\* C6 witness: a draft whose venue is only whitespace was refused, naming venue.
BlankVenueRefused ==
    /\ InsertedWithOthersValid("venue")
    /\ last.input["venue"] = Blank
    /\ last.outcome = ValidationError({"venue"})

\* C7: the insert of a draft whose date has not the shape YYYY-MM-DD, or has
\* it and is no calendar date, is refused for its date; the date check lets
\* 2026-10-25 through.
BadDateRefused ==
    /\ (InsertedWithOthersValid("date") /\ ~RealDate(last.input["date"])) =>
          \/ last.outcome.kind = "hook" /\ last.outcome.at = "date"
          \/ last.outcome.kind = "validation" /\ "date" \in last.outcome.fields
    /\ (InsertedWithOthersValid("date") /\ last.input["date"] = Date20261025) =>
          ~(last.outcome.kind = "hook" /\ last.outcome.at = "date")

\* C8: for every draft the schema accepts, the slug the hook derives is
\* non-empty, lower-case and made of URL-safe characters only.
DerivedSlugUrlSafe ==
    (last.op = "insert" /\ SchemaErrors(last.doc, AllPaths) = {}) =>
        /\ last.slug # <<>>
        /\ Range(last.slug) \subseteq UrlSafeChars

\* C9: no two Events of the collection have the same slug.
SlugsUnique ==
    \A e1 \in events, e2 \in events : e1 # e2 => (e1.id # e2.id /\ e1.doc["slug"] # e2.doc["slug"])

\* C9 witness: an update that would have given a second Event the slug of
\* another was refused by the index, both Events being in the collection.
DuplicateSlugRefused ==
    /\ last.op = "update"
    /\ last.outcome = DuplicateKey
    /\ Cardinality(events) = 2
    /\ \E e \in events : e.id # last.id /\ e.doc["slug"] = last.slug

====
